---- MODULE Spec2Model ----
(***************************************************************************)
(* Payment lifecycle and reconciliation of the SmartRent backend:          *)
(* src/src/routes/payments.js (the tenantId+propertyId/totalAmount routes, *)
(* lines 386-842) over PaymentService (src/unnamed/part_000, 372-528).     *)
(*                                                                         *)
(* Every route handler is an async function: between two awaits it runs    *)
(* alone on the event loop, and other handlers run while it awaits.  A     *)
(* handler is therefore a sequence of atomic steps, one per awaited store  *)
(* or processor call, and the steps of requests in flight interleave.      *)
(* The webhook handler awaits one call only (the store update), so it is   *)
(* one step.                                                               *)
(*                                                                         *)
(* Fields the routes write but never read back (description, createdAt,    *)
(* isFirstPayment) are left out of the payment record.                     *)
(*                                                                         *)
(* Spec is the service of the tenantId+propertyId routes.  SpecLease is    *)
(* the service of the lease-keyed routes (lines 1-385), SpecAfterCancel    *)
(* and SpecNoWebhook continue from a state Spec reaches, SpecService is     *)
(* PaymentService.create on its own, and SpecUnknownPayment adds webhook   *)
(* deliveries that name no stored payment.  SpecApplications is the        *)
(* service of src/src/routes/applications.js (apply, approve, reject)      *)
(* over ApplicationService and NotificationService.                        *)
(***************************************************************************)
EXTENDS Integers, Sequences, FiniteSets, TLC

\* Bounds of the model.
MaxPayments == 2    \* payment documents the store may hold
MaxIntents == 2     \* PaymentIntents the processor may hold
MaxTime == 1        \* last tick of the clock read by new Date()
NumProcs == 2       \* requests that can be in flight at once
MaxRequests == 4    \* requests the server accepts in one run

Procs == 1..NumProcs
PaymentIds == 1..MaxPayments
IntentIds == 1..MaxIntents

\* null in a document: intent ID / charge ID 0, paidAt -1.
NoIntent == 0
NoCharge == 0
NoTime == 0 - 1

Users == {"landlord1", "tenant1"}

Digits == {"0", "1", "2", "3", "4", "5", "6", "7", "8", "9"}

\* The period test reduced to the length of the period.
MatchesPeriodLength(period) ==
    Len(period) = 7

\* /^\d{4}-\d{2}$/.test(period), a period being its sequence of characters.
MatchesPeriodFormat(period) ==
    /\ Len(period) = 7
    /\ \A i \in {1, 2, 3, 4, 6, 7} : period[i] \in Digits
    /\ period[5] = "-"

March == <<"2", "0", "2", "5", "-", "0", "3">>
April == <<"2", "0", "2", "5", "-", "0", "4">>
ShortMonth == <<"2", "0", "2", "5", "-", "3">>
NoPeriod == <<>>
SlashMonth == <<"2", "0", "2", "5", "/", "0", "3">>
LetterYear == <<"2", "0", "a", "5", "-", "0", "3">>
LongMonth == <<"2", "0", "2", "5", "-", "0", "0", "3">>

Body(period, rentAmount, depositAmount) ==
    [tenantId |-> "tenant1", propertyId |-> "prop1", period |-> period,
     rentAmount |-> rentAmount, utilitiesAmount |-> 0,
     depositAmount |-> depositAmount]

\* The POST /create requests the model sends: the authenticated user and the
\* request body.
CreateRequests ==
    { [user |-> "landlord1", body |-> Body(March, 1000, 0)],
      [user |-> "landlord1", body |-> Body(March, 1000, 500)],
      [user |-> "landlord1", body |-> Body(April, 1000, 500)],
      [user |-> "tenant1", body |-> Body(March, 1000, 0)],
      [user |-> "landlord1", body |-> Body(ShortMonth, 1000, 0)],
      [user |-> "landlord1", body |-> Body(NoPeriod, 1000, 0)],
      [user |-> "landlord1", body |-> Body(SlashMonth, 1000, 0)],
      [user |-> "landlord1", body |-> Body(LetterYear, 1000, 0)],
      [user |-> "landlord1", body |-> Body(LongMonth, 1000, 0)],
      [user |-> "landlord1", body |-> Body(April, 0, 0)] }

EventTypes ==
    { "payment_intent.succeeded", "payment_intent.payment_failed",
      "payment_intent.canceled", "payment_intent.created" }

VARIABLES
    payments,   \* the payments collection: document i is payments[i]
    intents,    \* the processor's PaymentIntents: intent i is intents[i]
    now,        \* the clock
    pc,         \* pc[p]: the await request p is suspended at
    rq,         \* rq[p]: the locals of request p
    out,        \* the response (and log line) of the last step, if any
    served,     \* requests accepted so far
    applications,   \* the applications collection: document i is applications[i]
    leases,         \* the leases the approve route has created
    notifications   \* the notifications collection

\* The collections of the applications routes, which the payment routes
\* neither read nor write.
appVars == <<applications, leases, notifications>>

vars == <<payments, intents, now, pc, rq, out, served,
          applications, leases, notifications>>

NoOut == [op |-> "none", code |-> 0, tag |-> "none", pid |-> 0]
NoBody == [tenantId |-> "", propertyId |-> "", period |-> NoPeriod,
           rentAmount |-> 0, utilitiesAmount |-> 0, depositAmount |-> 0]
IdleReq == [op |-> "none", user |-> "none", pid |-> 0, body |-> NoBody,
            status |-> "none", intent |-> NoIntent, chg |-> NoCharge]

Exists(pid) == pid \in 1..Len(payments)

Init ==
    /\ payments = <<>>
    /\ intents = <<>>
    /\ now = 0
    /\ pc = [p \in Procs |-> "idle"]
    /\ rq = [p \in Procs |-> IdleReq]
    /\ out = NoOut
    /\ served = 0
    /\ applications = <<>>
    /\ leases = <<>>
    /\ notifications = <<>>

\* res.status(code).json(...) ending request p, which was about payment pid
\* (0: about none yet).
Respond(p, op, code, tag, pid) ==
    /\ pc' = [pc EXCEPT ![p] = "idle"]
    /\ rq' = [rq EXCEPT ![p] = IdleReq]
    /\ out' = [op |-> op, code |-> code, tag |-> tag, pid |-> pid]

\* Request p suspends at the await named next.
Suspend(p, next, locals) ==
    /\ pc' = [pc EXCEPT ![p] = next]
    /\ rq' = [rq EXCEPT ![p] = locals]
    /\ out' = NoOut

\* The server accepts one more request.
Accept ==
    /\ served < MaxRequests
    /\ served' = served + 1

\* Request slots are interchangeable: a new request takes the lowest free one.
FreeSlot(p) ==
    /\ pc[p] = "idle"
    /\ \A q \in Procs : q < p => pc[q] # "idle"

Tick ==
    /\ now < MaxTime
    /\ now' = now + 1
    /\ out' = NoOut
    /\ UNCHANGED <<payments, intents, pc, rq, served>>
    /\ UNCHANGED appVars
(***************************************************************************)
(* PaymentService: the store operations the routes call.                   *)
(***************************************************************************)

\* PaymentService.create with the spread of paymentData last: the caller's
\* fields win.
NewPaymentSpreadLast(paymentData) ==
    [f \in DOMAIN paymentData
             \cup {"status", "stripePaymentIntentId", "stripeChargeId", "paidAt"} |->
        IF f \in DOMAIN paymentData THEN paymentData[f]
        ELSE IF f = "status" THEN "pending"
        ELSE IF f = "stripePaymentIntentId" THEN NoIntent
        ELSE IF f = "stripeChargeId" THEN NoCharge
        ELSE NoTime]

\* PaymentService.create: the document written for paymentData, which is
\* { ...paymentData, status, stripePaymentIntentId, stripeChargeId, paidAt }:
\* the four fields after the spread win over fields of the same name in
\* paymentData.
NewPayment(paymentData) ==
    [f \in DOMAIN paymentData
             \cup {"status", "stripePaymentIntentId", "stripeChargeId", "paidAt"} |->
        IF f = "status" THEN "pending"
        ELSE IF f = "stripePaymentIntentId" THEN NoIntent
        ELSE IF f = "stripeChargeId" THEN NoCharge
        ELSE IF f = "paidAt" THEN NoTime
        ELSE paymentData[f]]

\* updateStatus writing the processor's currency code along with the status.
UpdateStatusWritesCurrency(store, pid, status, extraData, t) ==
    [store EXCEPT ![pid] =
        [f \in DOMAIN store[pid] |->
            IF f = "paidAt" /\ status = "paid" THEN t
            ELSE IF f \in DOMAIN extraData THEN extraData[f]
            ELSE IF f = "status" THEN status
            ELSE IF f = "currency" THEN "usd"
            ELSE store[pid][f]]]

\* PaymentService.updateStatus: updateData = { status, ...extraData }, paidAt
\* stamped when status is 'paid', merged into document pid.
UpdateStatus(store, pid, status, extraData, t) ==
    [store EXCEPT ![pid] =
        [f \in DOMAIN store[pid] |->
            IF f = "paidAt" /\ status = "paid" THEN t
            ELSE IF f \in DOMAIN extraData THEN extraData[f]
            ELSE IF f = "status" THEN status
            ELSE store[pid][f]]]

\* PaymentService.updateStripeIntentId.
UpdateStripeIntentId(store, pid, intentId) ==
    [store EXCEPT ![pid].stripePaymentIntentId = intentId]

\* hasExistingPayments with the status filter narrowed to 'paid'.
HasPaidPayments(store, tenantId, propertyId) ==
    \E i \in 1..Len(store) :
        /\ store[i].tenantId = tenantId
        /\ store[i].propertyId = propertyId
        /\ store[i].status \in {"paid"}

\* hasExistingPayments(tenantId, propertyId): the query is not empty.
HasExistingPayments(store, tenantId, propertyId) ==
    \E i \in 1..Len(store) :
        /\ store[i].tenantId = tenantId
        /\ store[i].propertyId = propertyId
        /\ store[i].status \in {"paid", "pending"}

\* The duplicate query with the status filter narrowed to 'paid'.
PaidDuplicateExists(store, landlordId, tenantId, propertyId, period) ==
    \E i \in 1..Len(store) :
        /\ store[i].landlordId = landlordId
        /\ store[i].tenantId = tenantId
        /\ store[i].propertyId = propertyId
        /\ store[i].period = period
        /\ store[i].status \in {"paid"}

\* The duplicate query of POST /create: existingSnap is not empty.
DuplicateExists(store, landlordId, tenantId, propertyId, period) ==
    \E i \in 1..Len(store) :
        /\ store[i].landlordId = landlordId
        /\ store[i].tenantId = tenantId
        /\ store[i].propertyId = propertyId
        /\ store[i].period = period
        /\ store[i].status \in {"pending", "paid"}

(***************************************************************************)
(* POST /create                                                            *)
(***************************************************************************)

\* Create requests in flight: each will add a document.
CreatesInFlight == Cardinality({p \in Procs : pc[p] \in {"c_dup", "c_write"}})

\* The request arrives, is validated, and hasExistingPayments is read.
CreateStart(p, user, body) ==
    /\ FreeSlot(p)
    /\ Accept
    /\ Len(payments) + CreatesInFlight < MaxPayments
    /\ UNCHANGED <<payments, intents, now>>
    /\ LET rent == body.rentAmount
           utilities == body.utilitiesAmount
           deposit == body.depositAmount
           totalAmount == rent + utilities + deposit
           hasPayments ==
               HasExistingPayments(payments, body.tenantId, body.propertyId)
       IN  IF body.tenantId = "" \/ body.propertyId = "" \/ body.period = NoPeriod
           THEN Respond(p, "create", 400, "missing_fields", 0)
           ELSE IF rent <= 0 /\ utilities <= 0 /\ deposit <= 0
           THEN Respond(p, "create", 400, "no_amount", 0)
           ELSE IF ~MatchesPeriodFormat(body.period)
           THEN Respond(p, "create", 400, "bad_period", 0)
           ELSE IF hasPayments /\ deposit > 0
           THEN Respond(p, "create", 400, "deposit_not_first", 0)
           ELSE IF totalAmount <= 0
           THEN Respond(p, "create", 400, "no_total", 0)
           ELSE Suspend(p, "c_dup",
                        [IdleReq EXCEPT !.op = "create", !.user = user,
                                        !.body = body])
    /\ UNCHANGED appVars

\* The duplicate query is read.
CreateCheckDuplicate(p) ==
    /\ pc[p] = "c_dup"
    /\ UNCHANGED served
    /\ UNCHANGED <<payments, intents, now>>
    /\ IF DuplicateExists(payments, rq[p].user, rq[p].body.tenantId,
                          rq[p].body.propertyId, rq[p].body.period)
       THEN Respond(p, "create", 409, "duplicate", 0)
       ELSE Suspend(p, "c_write", rq[p])
    /\ UNCHANGED appVars

\* paymentService.create writes the document; the route answers.
CreateWrite(p) ==
    /\ pc[p] = "c_write"
    /\ UNCHANGED served
    /\ LET body == rq[p].body
       IN payments' = Append(payments,
            NewPayment([tenantId |-> body.tenantId,
                        landlordId |-> rq[p].user,
                        propertyId |-> body.propertyId,
                        totalAmount |-> body.rentAmount + body.utilitiesAmount
                                          + body.depositAmount,
                        rentAmount |-> body.rentAmount,
                        utilitiesAmount |-> body.utilitiesAmount,
                        depositAmount |-> body.depositAmount,
                        currency |-> "USD",
                        period |-> body.period]))
    /\ Respond(p, "create", 200, "created", Len(payments) + 1)
    /\ UNCHANGED <<intents, now>>
    /\ UNCHANGED appVars
(***************************************************************************)
(* The payment processor.  An intent starts requires_payment_method; a     *)
(* failed attempt leaves it there and emits payment_intent.payment_failed; *)
(* it ends succeeded or canceled.  An attempt needs the intent's client    *)
(* secret, which only a response of POST /pay hands out.  Events are       *)
(* delivered at least once, in any order, so an event once emitted can     *)
(* arrive at any later time.                                               *)
(***************************************************************************)

\* stripe.paymentIntents.create: the intent the processor adds.
NewIntent(pid, amountInCents) ==
    [status |-> "requires_payment_method", paymentId |-> pid,
     amount |-> amountInCents, failedAttempt |-> FALSE,
     secretSent |-> FALSE]

\* The charge of a succeeded intent.
ChargeOf(i) == i

StripeAttemptFails(i) ==
    /\ i \in 1..Len(intents)
    /\ intents[i].status = "requires_payment_method"
    /\ intents[i].secretSent
    /\ ~intents[i].failedAttempt
    /\ intents' = [intents EXCEPT ![i].failedAttempt = TRUE]
    /\ out' = NoOut
    /\ UNCHANGED <<payments, now, pc, rq, served>>
    /\ UNCHANGED appVars

StripeSucceeds(i) ==
    /\ i \in 1..Len(intents)
    /\ intents[i].status = "requires_payment_method"
    /\ intents[i].secretSent
    /\ intents' = [intents EXCEPT ![i].status = "succeeded"]
    /\ out' = NoOut
    /\ UNCHANGED <<payments, now, pc, rq, served>>
    /\ UNCHANGED appVars

StripeCancels(i) ==
    /\ i \in 1..Len(intents)
    /\ intents[i].status = "requires_payment_method"
    /\ intents' = [intents EXCEPT ![i].status = "canceled"]
    /\ out' = NoOut
    /\ UNCHANGED <<payments, now, pc, rq, served>>
    /\ UNCHANGED appVars

\* The processor has emitted an event of this type whose object carries
\* metadata.paymentId = pid and, when chg is not null, charges.data[0].id = chg.
Emitted(type, pid, chg) ==
    \E i \in 1..Len(intents) :
        /\ intents[i].paymentId = pid
        /\ \/ /\ type = "payment_intent.succeeded"
              /\ intents[i].status = "succeeded"
              /\ chg \in {NoCharge, ChargeOf(i)}
           \/ /\ type = "payment_intent.payment_failed"
              /\ intents[i].failedAttempt
              /\ chg = NoCharge
           \/ /\ type = "payment_intent.canceled"
              /\ intents[i].status = "canceled"
              /\ chg = NoCharge
           \/ /\ type = "payment_intent.created"
              /\ chg = NoCharge

(***************************************************************************)
(* POST /pay/:paymentId                                                    *)
(***************************************************************************)

\* The request arrives and getById is read.
PayStart(p, user, pid) ==
    /\ FreeSlot(p)
    /\ Accept
    /\ UNCHANGED <<payments, intents, now>>
    /\ IF ~Exists(pid)
       THEN Respond(p, "pay", 404, "not_found", pid)
       ELSE IF payments[pid].tenantId # user
       THEN Respond(p, "pay", 403, "unauthorized", pid)
       ELSE IF payments[pid].status = "paid"
       THEN Respond(p, "pay", 400, "already_completed", pid)
       ELSE IF payments[pid].status = "cancelled"
       THEN Respond(p, "pay", 400, "cancelled", pid)
       ELSE Suspend(p,
                IF payments[pid].stripePaymentIntentId # NoIntent
                THEN "p_retrieve" ELSE "p_create",
                [IdleReq EXCEPT !.op = "pay", !.user = user, !.pid = pid,
                    !.intent = payments[pid].stripePaymentIntentId])
    /\ UNCHANGED appVars

\* The retrieve step that reuses no intent: whatever has not succeeded is
\* replaced.
PayRetrieveAlwaysNew(p) ==
    /\ pc[p] = "p_retrieve"
    /\ UNCHANGED served
    /\ UNCHANGED <<payments, intents, now>>
    /\ LET existingIntent == intents[rq[p].intent]
       IN  IF existingIntent.status = "succeeded"
           THEN Respond(p, "pay", 400, "already_completed", rq[p].pid)
           ELSE Suspend(p, "p_create", rq[p])
    /\ UNCHANGED appVars

\* stripe.paymentIntents.retrieve of the stored intent answers.
PayRetrieve(p) ==
    /\ pc[p] = "p_retrieve"
    /\ UNCHANGED served
    /\ UNCHANGED <<payments, intents, now>>
    /\ LET existingIntent == intents[rq[p].intent]
       IN  IF existingIntent.status = "succeeded"
           THEN Respond(p, "pay", 400, "already_completed", rq[p].pid)
           ELSE IF existingIntent.status # "canceled"
           THEN Respond(p, "pay", 200, "intent_reused", rq[p].pid)
           ELSE Suspend(p, "p_create", rq[p])
    /\ UNCHANGED appVars

\* stripe.paymentIntents.create answers with a new intent.
PayCreateIntent(p) ==
    /\ pc[p] = "p_create"
    /\ UNCHANGED served
    /\ Len(intents) < MaxIntents
    /\ intents' = Append(intents,
                     NewIntent(rq[p].pid, payments[rq[p].pid].totalAmount * 100))
    /\ Suspend(p, "p_store", [rq[p] EXCEPT !.intent = Len(intents) + 1])
    /\ UNCHANGED <<payments, now>>
    /\ UNCHANGED appVars

\* The last step of /pay answering before updateStripeIntentId has written.
PayStoreSecretFirst(p) ==
    /\ pc[p] = "p_store"
    /\ UNCHANGED served
    /\ UNCHANGED payments
    /\ intents' = [intents EXCEPT ![rq[p].intent].secretSent = TRUE]
    /\ Respond(p, "pay", 200, "intent_created", rq[p].pid)
    /\ UNCHANGED now
    /\ UNCHANGED appVars

\* updateStripeIntentId writes the intent ID; the route answers with the
\* intent's client secret.
PayStore(p) ==
    /\ pc[p] = "p_store"
    /\ UNCHANGED served
    /\ payments' = UpdateStripeIntentId(payments, rq[p].pid, rq[p].intent)
    /\ intents' = [intents EXCEPT ![rq[p].intent].secretSent = TRUE]
    /\ Respond(p, "pay", 200, "intent_created", rq[p].pid)
    /\ UNCHANGED now
    /\ UNCHANGED appVars

(***************************************************************************)
(* POST /sync/:paymentId                                                   *)
(***************************************************************************)

\* The request arrives and getById is read.  (Whether the request counts
\* against MaxRequests is said where the action is used.)
SyncStart(p, user, pid) ==
    /\ FreeSlot(p)
    /\ UNCHANGED <<payments, intents, now>>
    /\ IF ~Exists(pid)
       THEN Respond(p, "sync", 404, "not_found", pid)
       ELSE IF payments[pid].tenantId # user /\ payments[pid].landlordId # user
       THEN Respond(p, "sync", 403, "unauthorized", pid)
       ELSE IF payments[pid].stripePaymentIntentId = NoIntent
       THEN Respond(p, "sync", 400, "no_intent", pid)
       ELSE Suspend(p, "s_retrieve",
                [IdleReq EXCEPT !.op = "sync", !.user = user, !.pid = pid,
                    !.status = payments[pid].status,
                    !.intent = payments[pid].stripePaymentIntentId])
    /\ UNCHANGED appVars

\* The sync decision without the payment.status !== 'paid' test.
SyncRetrieveUnguarded(p, hasCharges) ==
    /\ pc[p] = "s_retrieve"
    /\ UNCHANGED served
    /\ UNCHANGED <<payments, intents, now>>
    /\ LET paymentIntent == intents[rq[p].intent]
       IN  IF paymentIntent.status = "succeeded"
           THEN Suspend(p, "s_paid",
                    [rq[p] EXCEPT !.chg = IF hasCharges
                                          THEN ChargeOf(rq[p].intent)
                                          ELSE NoCharge])
           ELSE IF paymentIntent.status = "canceled" /\ rq[p].status = "pending"
           THEN hasCharges /\ Suspend(p, "s_failed", rq[p])
           ELSE hasCharges
                /\ Respond(p, "sync", 200, "no_sync_needed", rq[p].pid)
    /\ UNCHANGED appVars

\* The sync decision with 'paid' written only over 'pending'.
SyncRetrievePendingOnly(p, hasCharges) ==
    /\ pc[p] = "s_retrieve"
    /\ UNCHANGED served
    /\ UNCHANGED <<payments, intents, now>>
    /\ LET paymentIntent == intents[rq[p].intent]
       IN  IF paymentIntent.status = "succeeded" /\ rq[p].status = "pending"
           THEN Suspend(p, "s_paid",
                    [rq[p] EXCEPT !.chg = IF hasCharges
                                          THEN ChargeOf(rq[p].intent)
                                          ELSE NoCharge])
           ELSE IF paymentIntent.status = "canceled" /\ rq[p].status = "pending"
           THEN hasCharges /\ Suspend(p, "s_failed", rq[p])
           ELSE hasCharges
                /\ Respond(p, "sync", 200, "no_sync_needed", rq[p].pid)
    /\ UNCHANGED appVars

\* stripe.paymentIntents.retrieve answers; the route decides on the status it
\* read at getById.  hasCharges: the intent object carries charges.data.
SyncRetrieve(p, hasCharges) ==
    /\ pc[p] = "s_retrieve"
    /\ UNCHANGED served
    /\ UNCHANGED <<payments, intents, now>>
    /\ LET paymentIntent == intents[rq[p].intent]
       IN  IF paymentIntent.status = "succeeded" /\ rq[p].status # "paid"
           THEN Suspend(p, "s_paid",
                    [rq[p] EXCEPT !.chg = IF hasCharges
                                          THEN ChargeOf(rq[p].intent)
                                          ELSE NoCharge])
           ELSE IF paymentIntent.status = "canceled" /\ rq[p].status = "pending"
           THEN hasCharges /\ Suspend(p, "s_failed", rq[p])
           ELSE hasCharges
                /\ Respond(p, "sync", 200, "no_sync_needed", rq[p].pid)
    /\ UNCHANGED appVars

\* updateStatus(paymentId, 'paid', { stripeChargeId }) is written.
SyncWritePaid(p) ==
    /\ pc[p] = "s_paid"
    /\ UNCHANGED served
    /\ payments' = UpdateStatus(payments, rq[p].pid, "paid",
                                [stripeChargeId |-> rq[p].chg], now)
    /\ Respond(p, "sync", 200, "synced_paid", rq[p].pid)
    /\ UNCHANGED <<intents, now>>
    /\ UNCHANGED appVars

\* updateStatus(paymentId, 'failed') is written.
SyncWriteFailed(p) ==
    /\ pc[p] = "s_failed"
    /\ UNCHANGED served
    /\ payments' = UpdateStatus(payments, rq[p].pid, "failed", <<>>, now)
    /\ Respond(p, "sync", 200, "synced_failed", rq[p].pid)
    /\ UNCHANGED <<intents, now>>
    /\ UNCHANGED appVars

(***************************************************************************)
(* DELETE /:paymentId                                                      *)
(***************************************************************************)

\* The cancel route without the payment.status === 'paid' test.
CancelStartUnchecked(p, user, pid) ==
    /\ FreeSlot(p)
    /\ Accept
    /\ UNCHANGED <<payments, intents, now>>
    /\ IF ~Exists(pid)
       THEN Respond(p, "cancel", 404, "not_found", pid)
       ELSE IF payments[pid].landlordId # user
       THEN Respond(p, "cancel", 403, "unauthorized", pid)
       ELSE Suspend(p, "x_write",
                [IdleReq EXCEPT !.op = "cancel", !.user = user, !.pid = pid])
    /\ UNCHANGED appVars

\* The cancel route with the authorization test of the sync route: the
\* tenant may cancel too.
CancelStartTenantToo(p, user, pid) ==
    /\ FreeSlot(p)
    /\ Accept
    /\ UNCHANGED <<payments, intents, now>>
    /\ IF ~Exists(pid)
       THEN Respond(p, "cancel", 404, "not_found", pid)
       ELSE IF payments[pid].tenantId # user /\ payments[pid].landlordId # user
       THEN Respond(p, "cancel", 403, "unauthorized", pid)
       ELSE IF payments[pid].status = "paid"
       THEN Respond(p, "cancel", 400, "already_paid", pid)
       ELSE Suspend(p, "x_write",
                [IdleReq EXCEPT !.op = "cancel", !.user = user, !.pid = pid])
    /\ UNCHANGED appVars

\* The request arrives and getById is read.
CancelStart(p, user, pid) ==
    /\ FreeSlot(p)
    /\ Accept
    /\ UNCHANGED <<payments, intents, now>>
    /\ IF ~Exists(pid)
       THEN Respond(p, "cancel", 404, "not_found", pid)
       ELSE IF payments[pid].landlordId # user
       THEN Respond(p, "cancel", 403, "unauthorized", pid)
       ELSE IF payments[pid].status = "paid"
       THEN Respond(p, "cancel", 400, "already_paid", pid)
       ELSE Suspend(p, "x_write",
                [IdleReq EXCEPT !.op = "cancel", !.user = user, !.pid = pid])
    /\ UNCHANGED appVars

\* updateStatus(paymentId, 'cancelled') is written.
CancelWrite(p) ==
    /\ pc[p] = "x_write"
    /\ UNCHANGED served
    /\ payments' = UpdateStatus(payments, rq[p].pid, "cancelled", <<>>, now)
    /\ Respond(p, "cancel", 200, "cancelled", rq[p].pid)
    /\ UNCHANGED <<intents, now>>
    /\ UNCHANGED appVars

(***************************************************************************)
(* POST /webhook                                                           *)
(***************************************************************************)

\* The switch with payment_failed putting the payment back to pending.
HandleEventFailedToPending(store, type, pid, chg, t) ==
    IF type = "payment_intent.succeeded"
    THEN UpdateStatus(store, pid, "paid", [stripeChargeId |-> chg], t)
    ELSE IF type = "payment_intent.payment_failed"
    THEN UpdateStatus(store, pid, "pending", <<>>, t)
    ELSE store

\* The switch with the payment_failed case as its default case.
HandleEventDefaultFailed(store, type, pid, chg, t) ==
    IF type = "payment_intent.succeeded"
    THEN UpdateStatus(store, pid, "paid", [stripeChargeId |-> chg], t)
    ELSE IF pid \in 1..Len(store)
    THEN UpdateStatus(store, pid, "failed", <<>>, t)
    ELSE store

\* The switch on event.type of a verified event: the store it leaves.
\* type, pid and chg are event.type, metadata.paymentId and
\* charges.data[0].id (or null) of the event's object.
HandleEvent(store, type, pid, chg, t) ==
    IF type = "payment_intent.succeeded"
    THEN UpdateStatus(store, pid, "paid", [stripeChargeId |-> chg], t)
    ELSE IF type = "payment_intent.payment_failed"
    THEN UpdateStatus(store, pid, "failed", <<>>, t)
    ELSE store

\* The event types the switch has a case for.
Handled(type) ==
    type \in {"payment_intent.succeeded", "payment_intent.payment_failed"}

\* The route if the store's write created the document it does not find
\* (set with merge instead of update).
WebhookProcessUpsert(type, pid, chg) ==
    IF Handled(type) /\ ~Exists(pid)
    THEN /\ payments' =
               HandleEvent(Append(payments,
                                  NewPayment([tenantId |-> "", landlordId |-> "",
                                              propertyId |-> "", totalAmount |-> 0,
                                              rentAmount |-> 0,
                                              utilitiesAmount |-> 0,
                                              depositAmount |-> 0,
                                              currency |-> "USD",
                                              period |-> NoPeriod])),
                           type, Len(payments) + 1, chg, now)
         /\ out' = [op |-> "webhook", code |-> 200, tag |-> type, pid |-> pid]
    ELSE /\ payments' = HandleEvent(payments, type, pid, chg, now)
         /\ out' = [op |-> "webhook", code |-> 200, tag |-> type, pid |-> pid]

\* The route after constructEvent has returned the event.  Document.update()
\* of a document that does not exist throws, which the catch answers with 500.
WebhookProcess(type, pid, chg) ==
    IF Handled(type) /\ ~Exists(pid)
    THEN /\ out' = [op |-> "webhook", code |-> 500, tag |-> "error",
                    pid |-> pid]
         /\ UNCHANGED payments
    ELSE /\ payments' = HandleEvent(payments, type, pid, chg, now)
         /\ out' = [op |-> "webhook", code |-> 200, tag |-> type, pid |-> pid]

\* The route without the constructEvent check: the body is processed as it
\* is.
WebhookUnverified(sigOK, type, pid, chg) ==
    /\ Accept
    /\ UNCHANGED <<intents, now, pc, rq>>
    /\ WebhookProcess(type, pid, chg)
    /\ UNCHANGED appVars

\* One request to POST /webhook.  sigOK: stripe.webhooks.constructEvent
\* accepts the body and its signature; type, pid and chg are what the body
\* says.
Webhook(sigOK, type, pid, chg) ==
    /\ Accept
    /\ UNCHANGED <<intents, now, pc, rq>>
    /\ IF ~sigOK
       THEN /\ out' = [op |-> "webhook", code |-> 400, tag |-> "bad_signature",
                       pid |-> pid]
            /\ UNCHANGED payments
       ELSE WebhookProcess(type, pid, chg)
    /\ UNCHANGED appVars

\* A delivery by the processor: the signature verifies and the body is an
\* event the processor emitted.
WebhookDelivery ==
    \E type \in EventTypes, pid \in PaymentIds, chg \in {NoCharge} \cup IntentIds :
        /\ Emitted(type, pid, chg)
        /\ Webhook(TRUE, type, pid, chg)

\* A request by anyone else: the signature does not verify, the body says
\* anything.
WebhookForged ==
    \E type \in EventTypes, pid \in PaymentIds, chg \in {NoCharge} \cup IntentIds :
        Webhook(FALSE, type, pid, chg)

\* A delivery of an event of an intent that was not created for a payment of
\* this store (the processor account also serves the lease-keyed routes and
\* other deployments): the signature verifies, metadata.paymentId names no
\* stored payment.
WebhookUnknownPayment ==
    \E type \in EventTypes, pid \in PaymentIds, chg \in {NoCharge} \cup IntentIds :
        /\ ~Exists(pid)
        /\ Webhook(TRUE, type, pid, chg)

\* An awaited store or processor call of request p throws: the route's catch
\* answers 500.
AwaitThrows(p) ==
    /\ pc[p] # "idle"
    /\ UNCHANGED served
    /\ Respond(p, rq[p].op, 500, "error", rq[p].pid)
    /\ UNCHANGED <<payments, intents, now>>
    /\ UNCHANGED appVars

Next ==
    \/ Tick
    \/ \E p \in Procs, r \in CreateRequests : CreateStart(p, r.user, r.body)
    \/ \E p \in Procs : CreateCheckDuplicate(p)
    \/ \E p \in Procs : CreateWrite(p)
    \/ \E p \in Procs, user \in Users, pid \in PaymentIds : PayStart(p, user, pid)
    \/ \E p \in Procs : PayRetrieve(p)
    \/ \E p \in Procs : PayCreateIntent(p)
    \/ \E p \in Procs : PayStore(p)
    \/ \E p \in Procs, user \in Users, pid \in PaymentIds :
          Accept /\ SyncStart(p, user, pid)
    \/ \E p \in Procs, hasCharges \in BOOLEAN : SyncRetrieve(p, hasCharges)
    \/ \E p \in Procs : SyncWritePaid(p)
    \/ \E p \in Procs : SyncWriteFailed(p)
    \/ \E p \in Procs, user \in Users, pid \in PaymentIds : CancelStart(p, user, pid)
    \/ \E p \in Procs : CancelWrite(p)
    \/ WebhookDelivery
    \/ WebhookForged
    \/ \E p \in Procs : AwaitThrows(p)
    \/ \E i \in IntentIds : StripeAttemptFails(i)
    \/ \E i \in IntentIds : StripeSucceeds(i)
    \/ \E i \in IntentIds : StripeCancels(i)

Spec == Init /\ [][Next]_vars

(***************************************************************************)
(* The lease-keyed routes (routes/payments.js 1-385): POST /create makes   *)
(* the payment record and its intent in one request, by the tenant of a    *)
(* lease; POST /get-intent hands out the secret of the stored intent.      *)
(* POST /sync/:paymentId and POST /webhook are the same code as above.     *)
(* These routes have no cancel and no /pay.                                *)
(***************************************************************************)

\* The leases collection, which the payment routes only read.  A
\* securityDeposit of 0 stands for a lease without that field.
Leases ==
    [l \in {"lease1", "lease0", "leaseEnded"} |->
        [tenantId |-> "tenant1", landlordId |-> "landlord1",
         propertyId |-> "prop1",
         status |-> IF l = "leaseEnded" THEN "terminated" ELSE "active",
         monthlyRent |-> IF l = "lease0" THEN 0 ELSE 1000,
         securityDeposit |-> IF l = "lease1" THEN 500 ELSE 0]]

LeaseBody(leaseId, period, type) ==
    [leaseId |-> leaseId, period |-> period, type |-> type]

\* The lease-keyed POST /create requests the model sends.
LeaseCreateRequests ==
    { [user |-> "tenant1", body |-> LeaseBody("lease1", March, "rent")],
      [user |-> "tenant1", body |-> LeaseBody("lease1", March, "deposit")],
      [user |-> "tenant1", body |-> LeaseBody("lease1", March, "fee")],
      [user |-> "tenant1", body |-> LeaseBody("lease1", ShortMonth, "rent")],
      [user |-> "tenant1", body |-> LeaseBody("lease0", March, "rent")],
      [user |-> "tenant1", body |-> LeaseBody("leaseEnded", March, "rent")],
      [user |-> "tenant1", body |-> LeaseBody("lease9", March, "rent")],
      [user |-> "tenant1", body |-> LeaseBody("", March, "rent")],
      [user |-> "landlord1", body |-> LeaseBody("lease1", March, "rent")] }

\* The duplicate check of the lease-keyed create, existsForPeriod(leaseId,
\* period): a pending or paid payment of the lease and period is stored.
\* The service this call was written for is not part of the source; the
\* status filter is that of PaymentService.existsForPeriod.
LeaseExistsForPeriod(store, leaseId, period) ==
    \E i \in 1..Len(store) :
        /\ store[i].leaseId = leaseId
        /\ store[i].period = period
        /\ store[i].status \in {"pending", "paid"}

\* The amount the switch on type determines (no amount for another type).
LeaseAmount(body) ==
    LET lease == Leases[body.leaseId]
    IN  IF body.type = "deposit" /\ lease.securityDeposit # 0
        THEN lease.securityDeposit
        ELSE lease.monthlyRent

LeaseCreatesInFlight ==
    Cardinality({p \in Procs : pc[p] \in {"l_dup", "l_write"}})

\* The request arrives, is validated, and the lease is read.
LeaseCreateStart(p, user, body) ==
    /\ FreeSlot(p)
    /\ Accept
    /\ Len(payments) + LeaseCreatesInFlight < MaxPayments
    /\ UNCHANGED <<payments, intents, now>>
    /\ IF body.leaseId = "" \/ body.period = NoPeriod
       THEN Respond(p, "create", 400, "missing_fields", 0)
       ELSE IF ~MatchesPeriodFormat(body.period)
       THEN Respond(p, "create", 400, "bad_period", 0)
       ELSE IF body.leaseId \notin DOMAIN Leases
       THEN Respond(p, "create", 404, "not_found", 0)
       ELSE IF Leases[body.leaseId].tenantId # user
       THEN Respond(p, "create", 403, "unauthorized", 0)
       ELSE IF Leases[body.leaseId].status # "active"
       THEN Respond(p, "create", 400, "lease_not_active", 0)
       ELSE Suspend(p, "l_dup",
                    [IdleReq EXCEPT !.op = "create", !.user = user,
                                    !.body = body])
    /\ UNCHANGED appVars

\* existsForPeriod answers; the switch on type picks the amount.
LeaseCreateCheckDuplicate(p) ==
    /\ pc[p] = "l_dup"
    /\ UNCHANGED served
    /\ UNCHANGED <<payments, intents, now>>
    /\ IF LeaseExistsForPeriod(payments, rq[p].body.leaseId, rq[p].body.period)
       THEN Respond(p, "create", 409, "duplicate", 0)
       ELSE IF rq[p].body.type \notin {"rent", "deposit"}
       THEN Respond(p, "create", 400, "bad_type", 0)
       ELSE Suspend(p, "l_write", rq[p])
    /\ UNCHANGED appVars

\* paymentService.create writes the document; then the amount is validated.
LeaseCreateWrite(p) ==
    /\ pc[p] = "l_write"
    /\ UNCHANGED served
    /\ LET body == rq[p].body
           lease == Leases[body.leaseId]
           amountInCents == LeaseAmount(body) * 100
       IN  /\ payments' = Append(payments,
                NewPayment([leaseId |-> body.leaseId,
                            tenantId |-> rq[p].user,
                            landlordId |-> lease.landlordId,
                            propertyId |-> lease.propertyId,
                            amount |-> LeaseAmount(body),
                            currency |-> "USD",
                            type |-> body.type,
                            period |-> body.period]))
           /\ IF amountInCents <= 0
              THEN Respond(p, "create", 400, "bad_amount", Len(payments) + 1)
              ELSE Suspend(p, "l_intent",
                           [rq[p] EXCEPT !.pid = Len(payments) + 1])
    /\ UNCHANGED <<intents, now>>
    /\ UNCHANGED appVars

\* stripe.paymentIntents.create answers with a new intent.
LeaseCreateIntent(p) ==
    /\ pc[p] = "l_intent"
    /\ UNCHANGED served
    /\ Len(intents) < MaxIntents
    /\ intents' = Append(intents,
                     NewIntent(rq[p].pid, LeaseAmount(rq[p].body) * 100))
    /\ Suspend(p, "l_store", [rq[p] EXCEPT !.intent = Len(intents) + 1])
    /\ UNCHANGED <<payments, now>>
    /\ UNCHANGED appVars

\* updateStripeIntentId writes the intent ID; the route answers with the
\* payment ID and the intent's client secret.
LeaseCreateStore(p) ==
    /\ pc[p] = "l_store"
    /\ UNCHANGED served
    /\ payments' = UpdateStripeIntentId(payments, rq[p].pid, rq[p].intent)
    /\ intents' = [intents EXCEPT ![rq[p].intent].secretSent = TRUE]
    /\ Respond(p, "create", 200, "created", rq[p].pid)
    /\ UNCHANGED now
    /\ UNCHANGED appVars

\* POST /get-intent: the request arrives and getById is read.
GetIntentStart(p, user, pid) ==
    /\ FreeSlot(p)
    /\ Accept
    /\ UNCHANGED <<payments, intents, now>>
    /\ IF ~Exists(pid)
       THEN Respond(p, "get-intent", 404, "not_found", pid)
       ELSE IF payments[pid].tenantId # user /\ payments[pid].landlordId # user
       THEN Respond(p, "get-intent", 403, "unauthorized", pid)
       ELSE IF payments[pid].status = "paid"
       THEN Respond(p, "get-intent", 400, "already_completed", pid)
       ELSE IF payments[pid].stripePaymentIntentId = NoIntent
       THEN Respond(p, "get-intent", 400, "no_intent", pid)
       ELSE Suspend(p, "g_retrieve",
                [IdleReq EXCEPT !.op = "get-intent", !.user = user,
                    !.pid = pid,
                    !.intent = payments[pid].stripePaymentIntentId])
    /\ UNCHANGED appVars

\* stripe.paymentIntents.retrieve of the stored intent answers.
GetIntentRetrieve(p) ==
    /\ pc[p] = "g_retrieve"
    /\ UNCHANGED served
    /\ UNCHANGED <<payments, intents, now>>
    /\ LET paymentIntent == intents[rq[p].intent]
       IN  IF paymentIntent.status = "succeeded"
           THEN Respond(p, "get-intent", 400, "already_completed", rq[p].pid)
           ELSE IF paymentIntent.status = "canceled"
           THEN Respond(p, "get-intent", 400, "intent_canceled", rq[p].pid)
           ELSE Respond(p, "get-intent", 200, "intent_returned", rq[p].pid)
    /\ UNCHANGED appVars

NextLease ==
    \/ Tick
    \/ \E p \in Procs, r \in LeaseCreateRequests :
          LeaseCreateStart(p, r.user, r.body)
    \/ \E p \in Procs : LeaseCreateCheckDuplicate(p)
    \/ \E p \in Procs : LeaseCreateWrite(p)
    \/ \E p \in Procs : LeaseCreateIntent(p)
    \/ \E p \in Procs : LeaseCreateStore(p)
    \/ \E p \in Procs, user \in Users, pid \in PaymentIds :
          GetIntentStart(p, user, pid)
    \/ \E p \in Procs : GetIntentRetrieve(p)
    \/ \E p \in Procs, user \in Users, pid \in PaymentIds :
          Accept /\ SyncStart(p, user, pid)
    \/ \E p \in Procs, hasCharges \in BOOLEAN : SyncRetrieve(p, hasCharges)
    \/ \E p \in Procs : SyncWritePaid(p)
    \/ \E p \in Procs : SyncWriteFailed(p)
    \/ WebhookDelivery
    \/ WebhookForged
    \/ \E p \in Procs : AwaitThrows(p)
    \/ \E i \in IntentIds : StripeAttemptFails(i)
    \/ \E i \in IntentIds : StripeSucceeds(i)
    \/ \E i \in IntentIds : StripeCancels(i)

SpecLease == Init /\ [][NextLease]_vars

\* What a caller may hand to PaymentService.create: the fields of a payment
\* request, with or without fields named like the ones create sets itself.
PaymentDataInputs ==
    LET With(d, f, v) == [g \in DOMAIN d \cup {f} |-> IF g = f THEN v ELSE d[g]]
        s0 == { [tenantId |-> "tenant1", landlordId |-> "landlord1",
                 propertyId |-> "prop1", totalAmount |-> amount,
                 currency |-> "USD", period |-> period] :
                    amount \in {500, 1000}, period \in {March, April} }
        s1 == s0 \cup {With(d, "status", v) : d \in s0, v \in {"paid", "cancelled"}}
        s2 == s1 \cup {With(d, "stripePaymentIntentId", 1) : d \in s1}
        s3 == s2 \cup {With(d, "stripeChargeId", 1) : d \in s2}
    IN  s3 \cup {With(d, "paidAt", 0) : d \in s3}

\* One call of PaymentService.create by any caller.
ServiceCreate(paymentData) ==
    /\ Len(payments) < MaxPayments
    /\ payments' = Append(payments, NewPayment(paymentData))
    /\ rq' = [rq EXCEPT ![1].body = paymentData]
    /\ out' = NoOut
    /\ UNCHANGED <<intents, now, pc, served>>
    /\ UNCHANGED appVars

NextService == \E paymentData \in PaymentDataInputs : ServiceCreate(paymentData)

\* PaymentService.create under any caller.
SpecService == Init /\ [][NextService]_vars

\* The state after landlord1 has requested the March rent and tenant1 has
\* been given an intent for it.
InitAwaitingPayment ==
    /\ payments =
          UpdateStripeIntentId(
              <<NewPayment([tenantId |-> "tenant1",
                            landlordId |-> "landlord1",
                            propertyId |-> "prop1",
                            totalAmount |-> 1000,
                            rentAmount |-> 1000,
                            utilitiesAmount |-> 0,
                            depositAmount |-> 0,
                            currency |-> "USD",
                            period |-> March])>>,
              1, 1)
    /\ intents = <<[NewIntent(1, 100000) EXCEPT !.secretSent = TRUE]>>
    /\ now = 0
    /\ pc = [p \in Procs |-> "idle"]
    /\ rq = [p \in Procs |-> IdleReq]
    /\ out = NoOut
    /\ served = 0
    /\ applications = <<>>
    /\ leases = <<>>
    /\ notifications = <<>>

\* A sync call for payment 1, which its tenant and its landlord repeat
\* without limit.
SyncCall == \E p \in Procs, user \in Users : SyncStart(p, user, 1) /\ UNCHANGED served

\* The service without webhook deliveries: the tenant pays at the processor,
\* sync calls and (up to MaxRequests) cancel requests arrive, awaited calls
\* may throw.
NextNoWebhook ==
    \/ Tick
    \/ SyncCall
    \/ \E p \in Procs, hasCharges \in BOOLEAN : SyncRetrieve(p, hasCharges)
    \/ \E p \in Procs : SyncWritePaid(p)
    \/ \E p \in Procs : SyncWriteFailed(p)
    \/ \E p \in Procs, user \in Users, pid \in PaymentIds : CancelStart(p, user, pid)
    \/ \E p \in Procs : CancelWrite(p)
    \/ \E p \in Procs : AwaitThrows(p)
    \/ \E i \in IntentIds : StripeAttemptFails(i)
    \/ \E i \in IntentIds : StripeSucceeds(i)
    \/ \E i \in IntentIds : StripeCancels(i)

\* Sync calls keep coming, every awaited call of a request in flight
\* returns, and the retrieve and the write of a sync do not throw every
\* time.
SyncFairness ==
    /\ WF_vars(SyncCall)
    /\ \A p \in Procs :
          /\ SF_vars(\E hasCharges \in BOOLEAN : SyncRetrieve(p, hasCharges))
          /\ SF_vars(SyncWritePaid(p))
          /\ SF_vars(SyncWriteFailed(p))
          /\ SF_vars(CancelWrite(p))

SpecNoWebhook == InitAwaitingPayment /\ [][NextNoWebhook]_vars /\ SyncFairness

\* The state after landlord1 has requested the March rent, tenant1 has been
\* given an intent for it, one attempt to pay it has failed at the processor,
\* and landlord1 has cancelled the payment.
InitAfterCancel ==
    /\ payments =
          UpdateStatus(
              UpdateStripeIntentId(
                  <<NewPayment([tenantId |-> "tenant1",
                                landlordId |-> "landlord1",
                                propertyId |-> "prop1",
                                totalAmount |-> 1000,
                                rentAmount |-> 1000,
                                utilitiesAmount |-> 0,
                                depositAmount |-> 0,
                                currency |-> "USD",
                                period |-> March])>>,
                  1, 1),
              1, "cancelled", <<>>, 0)
    /\ intents = <<[NewIntent(1, 100000) EXCEPT !.failedAttempt = TRUE,
                                                !.secretSent = TRUE]>>
    /\ now = 0
    /\ pc = [p \in Procs |-> "idle"]
    /\ rq = [p \in Procs |-> IdleReq]
    /\ out = NoOut
    /\ served = 0
    /\ applications = <<>>
    /\ leases = <<>>
    /\ notifications = <<>>

\* The runs of the service that follow a landlord's cancel.
SpecAfterCancel == InitAfterCancel /\ [][Next]_vars

\* The payment-keyed routes with deliveries of events that name no stored
\* payment.
NextUnknownPayment == Next \/ WebhookUnknownPayment

SpecUnknownPayment == Init /\ [][NextUnknownPayment]_vars

(***************************************************************************)
(* The applications routes (routes/applications.js): a tenant applies for  *)
(* a property, the landlord of the application approves it (which creates  *)
(* the lease) or rejects it.  Each route notifies the other party through  *)
(* NotificationService.create, which throws when the store's write fails.  *)
(* The lease service is not part of the sources; createLease is modelled   *)
(* on its call in the approve route.                                       *)
(***************************************************************************)

MaxApplications == 2

ApplicationIds == 1..MaxApplications

NoLease == 0

\* The properties collection, which these routes only read.
Properties ==
    [prop \in {"prop1", "prop2"} |->
        [landlordId |-> "landlord1",
         status |-> IF prop = "prop1" THEN "available" ELSE "rented"]]

\* The propertyId of the POST /apply bodies the model sends: an available
\* property, a rented one, one that does not exist, and none.
ApplyPropertyIds == {"prop1", "prop2", "prop9", ""}

\* The POST /:applicationId/approve bodies the model sends: complete, and
\* without monthlyRent.
ApproveBodies ==
    { [startDate |-> "2024-03-01", endDate |-> "2025-02-28",
       monthlyRent |-> 1000, depositAmount |-> 500],
      [startDate |-> "2024-03-01", endDate |-> "2025-02-28",
       monthlyRent |-> 0, depositAmount |-> 500] }

AppExists(id) == id \in 1..Len(applications)

\* ApplicationService.create: the document written.  leaseId, approvedAt and
\* rejectedAt, which the document gets later, start as NoLease and NoTime.
NewApplication(data) ==
    [tenantId |-> data.tenantId, landlordId |-> data.landlordId,
     propertyId |-> data.propertyId, status |-> "pending",
     leaseId |-> NoLease, approvedAt |-> NoTime, rejectedAt |-> NoTime]

\* ApplicationService.updateStatus: status, the additional data (the leaseId
\* of an approval) and approvedAt or rejectedAt are written, whatever the
\* document holds.
ApplicationUpdateStatus(store, id, status, leaseId, t) ==
    [store EXCEPT ![id] =
        [@ EXCEPT !.status = status,
                  !.leaseId = IF status = "approved" THEN leaseId ELSE @,
                  !.approvedAt = IF status = "approved" THEN t ELSE @,
                  !.rejectedAt = IF status = "rejected" THEN t ELSE @]]

\* ApplicationService.hasExistingApplication.
HasExistingApplication(store, tenantId, propertyId) ==
    \E i \in 1..Len(store) :
        /\ store[i].tenantId = tenantId
        /\ store[i].propertyId = propertyId
        /\ store[i].status \in {"pending", "approved"}

\* leaseService.createLease: the lease written for an application.
NewLease(application, body) ==
    [tenantId |-> application.tenantId, landlordId |-> application.landlordId,
     propertyId |-> application.propertyId, monthlyRent |-> body.monthlyRent,
     depositAmount |-> body.depositAmount, status |-> "active"]

\* NotificationService.create: the document written.
NewNotification(userId, relatedId, relatedType) ==
    [userId |-> userId, relatedId |-> relatedId, relatedType |-> relatedType]

\* The locals of a request of the applications routes.
AppReq(op, user, id, body) ==
    [op |-> op, user |-> user, pid |-> id, body |-> body]

\* Creates that have passed their checks and not yet written.
AppliesInFlight == Cardinality({p \in Procs : pc[p] \in {"ap_existing", "ap_create"}})

\* POST /apply up to the await of hasExistingApplication.
ApplyStart(p, user, propertyId) ==
    /\ FreeSlot(p)
    /\ Accept
    /\ Len(applications) + AppliesInFlight < MaxApplications
    /\ IF propertyId = ""
       THEN Respond(p, "apply", 400, "missing_property", 0)
       ELSE IF propertyId \notin DOMAIN Properties
       THEN Respond(p, "apply", 404, "no_property", 0)
       ELSE IF Properties[propertyId].status # "available"
       THEN Respond(p, "apply", 400, "not_available", 0)
       ELSE Suspend(p, "ap_existing",
                    AppReq("apply", user, 0, [propertyId |-> propertyId]))
    /\ UNCHANGED <<payments, intents, now>>
    /\ UNCHANGED appVars

\* hasExistingApplication is read.
ApplyCheckExisting(p) ==
    /\ pc[p] = "ap_existing"
    /\ UNCHANGED served
    /\ IF HasExistingApplication(applications, rq[p].user, rq[p].body.propertyId)
       THEN Respond(p, "apply", 400, "already_applied", 0)
       ELSE Suspend(p, "ap_create", rq[p])
    /\ UNCHANGED <<payments, intents, now>>
    /\ UNCHANGED appVars

\* applicationService.create writes the application.
ApplyCreate(p) ==
    /\ pc[p] = "ap_create"
    /\ UNCHANGED served
    /\ applications' =
          Append(applications,
                 NewApplication([tenantId |-> rq[p].user,
                                 landlordId |->
                                     Properties[rq[p].body.propertyId].landlordId,
                                 propertyId |-> rq[p].body.propertyId]))
    /\ Suspend(p, "ap_notify", [rq[p] EXCEPT !.pid = Len(applications) + 1])
    /\ UNCHANGED <<payments, intents, now, leases, notifications>>

\* The landlord is notified, inside the route's inner try: delivered says
\* whether notificationService.create returned or threw.  Either way the
\* route answers 201.
ApplyNotify(p, delivered) ==
    /\ pc[p] = "ap_notify"
    /\ UNCHANGED served
    /\ notifications' =
          IF delivered
          THEN Append(notifications,
                      NewNotification(applications[rq[p].pid].landlordId,
                                      rq[p].pid, "application"))
          ELSE notifications
    /\ Respond(p, "apply", 201, IF delivered THEN "notified" ELSE "not_notified",
               rq[p].pid)
    /\ UNCHANGED <<payments, intents, now, applications, leases>>

\* POST /:applicationId/approve up to the await of createLease.  The
\* application read here is the one the rest of the request uses.
ApproveStart(p, user, id, body) ==
    /\ FreeSlot(p)
    /\ Accept
    /\ IF body.startDate = "" \/ body.endDate = "" \/ body.monthlyRent = 0
       THEN Respond(p, "approve", 400, "missing_fields", id)
       ELSE IF ~AppExists(id)
       THEN Respond(p, "approve", 404, "not_found", id)
       ELSE IF applications[id].landlordId # user
       THEN Respond(p, "approve", 403, "unauthorized", id)
       ELSE IF applications[id].status # "pending"
       THEN Respond(p, "approve", 400, "already_processed", id)
       ELSE Suspend(p, "ar_lease",
                    AppReq("approve", user, id,
                           [application |-> applications[id], terms |-> body,
                            leaseId |-> NoLease]))
    /\ UNCHANGED <<payments, intents, now>>
    /\ UNCHANGED appVars

\* leaseService.createLease writes the lease.
ApproveCreateLease(p) ==
    /\ pc[p] = "ar_lease"
    /\ UNCHANGED served
    /\ leases' = Append(leases, NewLease(rq[p].body.application, rq[p].body.terms))
    /\ Suspend(p, "ar_status",
               [rq[p] EXCEPT !.body.leaseId = Len(leases) + 1])
    /\ UNCHANGED <<payments, intents, now, applications, notifications>>

\* applicationService.updateStatus(applicationId, 'approved', { leaseId }).
ApproveUpdateStatus(p) ==
    /\ pc[p] = "ar_status"
    /\ UNCHANGED served
    /\ applications' = ApplicationUpdateStatus(applications, rq[p].pid, "approved",
                                               rq[p].body.leaseId, now)
    /\ Suspend(p, "ar_notify", rq[p])
    /\ UNCHANGED <<payments, intents, now, leases, notifications>>

\* The tenant is notified, inside the route's only try: when
\* notificationService.create throws, the route's catch answers 500.
ApproveNotify(p, delivered) ==
    /\ pc[p] = "ar_notify"
    /\ UNCHANGED served
    /\ IF delivered
       THEN /\ notifications' =
                  Append(notifications,
                         NewNotification(rq[p].body.application.tenantId,
                                         rq[p].body.leaseId, "lease"))
            /\ Respond(p, "approve", 200, "notified", rq[p].pid)
       ELSE /\ UNCHANGED notifications
            /\ Respond(p, "approve", 500, "not_notified", rq[p].pid)
    /\ UNCHANGED <<payments, intents, now, applications, leases>>

\* POST /:applicationId/reject up to the await of updateStatus.
RejectStart(p, user, id) ==
    /\ FreeSlot(p)
    /\ Accept
    /\ IF ~AppExists(id)
       THEN Respond(p, "reject", 404, "not_found", id)
       ELSE IF applications[id].landlordId # user
       THEN Respond(p, "reject", 403, "unauthorized", id)
       ELSE IF applications[id].status # "pending"
       THEN Respond(p, "reject", 400, "already_processed", id)
       ELSE Suspend(p, "rj_status",
                    AppReq("reject", user, id,
                           [application |-> applications[id]]))
    /\ UNCHANGED <<payments, intents, now>>
    /\ UNCHANGED appVars

\* applicationService.updateStatus(applicationId, 'rejected', ...).
RejectUpdateStatus(p) ==
    /\ pc[p] = "rj_status"
    /\ UNCHANGED served
    /\ applications' = ApplicationUpdateStatus(applications, rq[p].pid, "rejected",
                                               NoLease, now)
    /\ Suspend(p, "rj_notify", rq[p])
    /\ UNCHANGED <<payments, intents, now, leases, notifications>>

\* The tenant is notified, inside the route's only try.
RejectNotify(p, delivered) ==
    /\ pc[p] = "rj_notify"
    /\ UNCHANGED served
    /\ IF delivered
       THEN /\ notifications' =
                  Append(notifications,
                         NewNotification(rq[p].body.application.tenantId,
                                         rq[p].pid, "application"))
            /\ Respond(p, "reject", 200, "notified", rq[p].pid)
       ELSE /\ UNCHANGED notifications
            /\ Respond(p, "reject", 500, "not_notified", rq[p].pid)
    /\ UNCHANGED <<payments, intents, now, applications, leases>>

\* An awaited call other than the notification throws.
AppAwaitThrows(p) ==
    /\ pc[p] \notin {"ap_notify", "ar_notify", "rj_notify"}
    /\ AwaitThrows(p)

NextApplications ==
    \/ Tick
    \/ \E p \in Procs, user \in Users, propertyId \in ApplyPropertyIds :
          ApplyStart(p, user, propertyId)
    \/ \E p \in Procs : ApplyCheckExisting(p)
    \/ \E p \in Procs : ApplyCreate(p)
    \/ \E p \in Procs, delivered \in BOOLEAN : ApplyNotify(p, delivered)
    \/ \E p \in Procs, user \in Users, id \in ApplicationIds, body \in ApproveBodies :
          ApproveStart(p, user, id, body)
    \/ \E p \in Procs : ApproveCreateLease(p)
    \/ \E p \in Procs : ApproveUpdateStatus(p)
    \/ \E p \in Procs, delivered \in BOOLEAN : ApproveNotify(p, delivered)
    \/ \E p \in Procs, user \in Users, id \in ApplicationIds : RejectStart(p, user, id)
    \/ \E p \in Procs : RejectUpdateStatus(p)
    \/ \E p \in Procs, delivered \in BOOLEAN : RejectNotify(p, delivered)
    \/ \E p \in Procs : AppAwaitThrows(p)

SpecApplications == Init /\ [][NextApplications]_vars

(***************************************************************************)
(* The claims.                                                             *)
(***************************************************************************)

Stored == 1..Len(payments)

SameTuple(a, b) ==
    /\ a.tenantId = b.tenantId
    /\ a.propertyId = b.propertyId
    /\ a.period = b.period

\* C1: a payment whose stored status is paid has status paid after every
\* step of every operation.
C1_PaidIsTerminal ==
    [][\A i \in Stored :
          payments[i].status = "paid" => payments'[i].status = "paid"]_vars

C3_OneActivePaymentPerPeriod ==
    \A i \in Stored, j \in Stored :
        (i # j /\ SameTuple(payments[i], payments[j]))
            => \/ payments[i].status = "cancelled"
               \/ payments[j].status = "cancelled"

C6_SucceededTwiceIsNoOp ==
    [][/\ \A pid \in Stored :
            ( /\ Webhook(TRUE, "payment_intent.succeeded", pid,
                         payments[pid].stripeChargeId)
              /\ payments[pid].status = "paid" )
                => payments'[pid] = payments[pid]
       /\ \A p \in Procs :
            ( /\ SyncWritePaid(p)
              /\ payments[rq[p].pid].status = "paid"
              /\ payments[rq[p].pid].stripeChargeId = rq[p].chg )
                => payments'[rq[p].pid] = payments[rq[p].pid]]_vars

\* applyExternalStatus of the specification, on one record.
ApplyExternalStatus(rec, externalStatus, chargeId, t) ==
    IF externalStatus = "succeeded" /\ rec.status # "paid"
    THEN [rec EXCEPT !.status = "paid", !.paidAt = t,
                     !.stripeChargeId = chargeId]
    ELSE IF externalStatus \in {"canceled", "failed"} /\ rec.status = "pending"
    THEN [rec EXCEPT !.status = "failed"]
    ELSE rec

\* C7: every verified delivery of a handled event, and every write of a sync,
\* leaves the stored status that applyExternalStatus gives on the stored
\* record.
C7_WebhookAndSyncAgree ==
    [][/\ \A pid \in Stored, chg \in {NoCharge} \cup IntentIds :
            /\ Webhook(TRUE, "payment_intent.succeeded", pid, chg)
                  => payments'[pid].status =
                        ApplyExternalStatus(payments[pid], "succeeded", chg,
                                            now).status
            /\ Webhook(TRUE, "payment_intent.payment_failed", pid, chg)
                  => payments'[pid].status =
                        ApplyExternalStatus(payments[pid], "failed", chg,
                                            now).status
       /\ \A p \in Procs :
            /\ SyncWritePaid(p)
                  => payments'[rq[p].pid].status =
                        ApplyExternalStatus(payments[rq[p].pid], "succeeded",
                                            rq[p].chg, now).status
            /\ SyncWriteFailed(p)
                  => payments'[rq[p].pid].status =
                        ApplyExternalStatus(payments[rq[p].pid], "canceled",
                                            NoCharge, now).status]_vars

\* C8: for any two events the processor has emitted for one payment, the
\* stored status after delivering both does not depend on which is delivered
\* first.
C8_DeliveryOrderIrrelevant ==
    \A pid \in Stored :
        \A t1 \in EventTypes, t2 \in EventTypes :
            \A c1 \in {NoCharge} \cup IntentIds, c2 \in {NoCharge} \cup IntentIds :
                (Emitted(t1, pid, c1) /\ Emitted(t2, pid, c2))
                    => HandleEvent(HandleEvent(payments, t1, pid, c1, now),
                                   t2, pid, c2, now)[pid].status
                       = HandleEvent(HandleEvent(payments, t2, pid, c2, now),
                                     t1, pid, c1, now)[pid].status

\* C9: a webhook request whose signature does not verify is answered 400 and
\* leaves every payment record as it was, whatever its body says.
C9_BadSignatureRejected ==
    [][\A type \in EventTypes, pid \in PaymentIds,
          chg \in {NoCharge} \cup IntentIds :
          Webhook(FALSE, type, pid, chg)
              => (out'.op = "webhook" /\ out'.code = 400
                  /\ payments' = payments)]_vars

\* An unverified webhook naming a stored pending payment has been answered.
C9_Witness ==
    /\ out.op = "webhook"
    /\ out.tag = "bad_signature"
    /\ out.pid \in Stored
    /\ payments[out.pid].status = "pending"
    /\ payments[out.pid].stripePaymentIntentId # NoIntent

\* C10: a verified event of a type other than payment_intent.succeeded and
\* payment_intent.payment_failed is answered 200 and leaves every payment
\* record as it was.
C10_UnhandledEventIgnored ==
    [][\A type \in EventTypes \ {"payment_intent.succeeded",
                                 "payment_intent.payment_failed"},
          pid \in PaymentIds, chg \in {NoCharge} \cup IntentIds :
          Webhook(TRUE, type, pid, chg)
              => (out'.op = "webhook" /\ out'.code = 200
                  /\ payments' = payments)]_vars

\* A verified payment_intent.canceled event for a stored pending payment has
\* been answered.
C10_Witness ==
    /\ out.op = "webhook"
    /\ out.code = 200
    /\ out.tag = "payment_intent.canceled"
    /\ out.pid \in Stored
    /\ payments[out.pid].status = "pending"

\* C11: a sync request that read the stored status paid at getById never
\* reaches a write: it waits for the processor's answer, and on that answer
\* it responds 200 with synced:false and leaves the store as it was.
C11_SyncOnPaidWritesNothing ==
    [][\A p \in Procs :
          (rq[p].op = "sync" /\ rq[p].status = "paid")
              => /\ pc[p] = "s_retrieve"
                 /\ \A hasCharges \in BOOLEAN :
                       SyncRetrieve(p, hasCharges)
                           => /\ out' = [op |-> "sync", code |-> 200,
                                         tag |-> "no_sync_needed",
                                         pid |-> rq[p].pid]
                              /\ pc'[p] = "idle"
                              /\ payments' = payments]_vars

\* A sync of a paid payment whose intent has succeeded has answered
\* synced:false.
C11_Witness ==
    /\ out.op = "sync"
    /\ out.tag = "no_sync_needed"
    /\ out.pid \in Stored
    /\ payments[out.pid].status = "paid"
    /\ payments[out.pid].paidAt # NoTime
    /\ intents[payments[out.pid].stripePaymentIntentId].status = "succeeded"

\* C12: a cancel request by the payment's landlord that finds the stored
\* status paid is answered 400 and leaves the store as it was.
C12_CancelPaidRejected ==
    [][\A p \in Procs, user \in Users, pid \in Stored :
          ( /\ CancelStart(p, user, pid)
            /\ payments[pid].landlordId = user
            /\ payments[pid].status = "paid" )
              => /\ out' = [op |-> "cancel", code |-> 400,
                            tag |-> "already_paid", pid |-> pid]
                 /\ pc'[p] = "idle"
                 /\ payments' = payments]_vars

\* A cancel of a paid payment has been refused.
C12_Witness ==
    /\ out.op = "cancel"
    /\ out.code = 400
    /\ out.pid \in Stored
    /\ payments[out.pid].status = "paid"

\* C13: once the landlord has cancelled a pending payment (payment 1 of
\* SpecAfterCancel), no later initiate-charge for that payment is answered
\* with a client secret.
C13_NoChargeAfterCancel ==
    ~(out.op = "pay" /\ out.code = 200 /\ out.pid = 1)

\* C14 as stated: an initiate-charge that retrieves the intent its payment
\* stores, and finds its status other than canceled, answers 200 with that
\* intent; no intent is created and the store is unchanged.
C14_ReusedUnlessCanceled ==
    [][\A p \in Procs :
          (PayRetrieve(p) /\ intents[rq[p].intent].status # "canceled")
              => /\ out' = [op |-> "pay", code |-> 200, tag |-> "intent_reused",
                            pid |-> rq[p].pid]
                 /\ intents' = intents
                 /\ payments' = payments]_vars

\* C14 as amended: an initiate-charge that retrieves the intent its payment
\* stores answers 200 with that intent when its status is neither succeeded
\* nor canceled, and 400 when it is succeeded, in both cases creating no
\* intent and leaving the store unchanged; it goes on to create an intent
\* only when the status is canceled, and the ID of the intent it creates is
\* then written over the stored one.
C14_ReusedUnlessCanceledOrSucceeded ==
    [][\A p \in Procs :
          /\ PayRetrieve(p) =>
                LET status == intents[rq[p].intent].status
                IN  /\ status = "succeeded"
                          => /\ out' = [op |-> "pay", code |-> 400,
                                        tag |-> "already_completed",
                                        pid |-> rq[p].pid]
                             /\ pc'[p] = "idle"
                    /\ status \notin {"succeeded", "canceled"}
                          => /\ out' = [op |-> "pay", code |-> 200,
                                        tag |-> "intent_reused",
                                        pid |-> rq[p].pid]
                             /\ pc'[p] = "idle"
                    /\ status = "canceled" <=> pc'[p] = "p_create"
                    /\ intents' = intents
                    /\ payments' = payments
          /\ (PayCreateIntent(p) /\ rq[p].intent # NoIntent)
                => /\ intents[rq[p].intent].status = "canceled"
                   /\ Len(intents') = Len(intents) + 1
                   /\ rq'[p].intent = Len(intents')
                   /\ payments' = payments
          /\ PayStore(p)
                => payments'[rq[p].pid].stripePaymentIntentId = rq[p].intent]_vars

\* An initiate-charge has replaced the canceled intent its payment stored
\* by a new one.
C14_Witness ==
    /\ out.op = "pay"
    /\ out.tag = "intent_created"
    /\ out.pid \in Stored
    /\ Len(intents) = 2
    /\ intents[1].paymentId = out.pid
    /\ intents[1].status = "canceled"
    /\ intents[1].secretSent
    /\ payments[out.pid].stripePaymentIntentId = 2

\* C15: the step in which the client secret of a newly created intent is
\* handed out is a 200 answer of /pay that leaves that intent's ID stored on
\* its payment; and when an awaited call of a /pay request throws after the
\* intent was created, the answer is 500 and no secret is handed out.
C15_IntentStoredBeforeSecret ==
    [][/\ \A i \in 1..Len(intents) :
            (~intents[i].secretSent /\ intents'[i].secretSent)
                => /\ payments'[intents[i].paymentId].stripePaymentIntentId = i
                   /\ out' = [op |-> "pay", code |-> 200,
                              tag |-> "intent_created",
                              pid |-> intents[i].paymentId]
       /\ \A p \in Procs :
            (AwaitThrows(p) /\ pc[p] = "p_store")
                => /\ out' = [op |-> "pay", code |-> 500, tag |-> "error",
                              pid |-> rq[p].pid]
                   /\ intents' = intents
                   /\ payments' = payments]_vars

\* An initiate-charge has answered with the secret of the intent it created.
C15_Witness ==
    /\ out.op = "pay"
    /\ out.tag = "intent_created"
    /\ out.pid \in Stored
    /\ payments[out.pid].stripePaymentIntentId # NoIntent
    /\ intents[payments[out.pid].stripePaymentIntentId].secretSent
    /\ intents[payments[out.pid].stripePaymentIntentId].status
          = "requires_payment_method"

OnTheWayToIntent(pid) ==
    \E p \in Procs :
        /\ pc[p] \in {"p_create", "p_store", "l_intent", "l_store"}
        /\ rq[p].pid = pid

C18_SyncEventuallyPaid ==
    ( /\ payments[1].status = "pending"
      /\ intents[payments[1].stripePaymentIntentId].status = "succeeded" )
        ~> payments[1].status = "paid"

\* A sync call has written paid, no webhook having been delivered.
C18_Witness ==
    /\ out = [op |-> "sync", code |-> 200, tag |-> "synced_paid", pid |-> 1]
    /\ payments[1].status = "paid"
    /\ intents[payments[1].stripePaymentIntentId].status = "succeeded"

\* Four digits, a hyphen and two digits.
IsYearMonth(period) ==
    /\ Len(period) = 7
    /\ period[5] = "-"
    /\ \A i \in (1..7) \ {5} : period[i] \in Digits

\* C19: a create request whose period is not four digits, a hyphen and two
\* digits is answered 400 and the store is unchanged.
C19_BadPeriodRejected ==
    [][\A p \in Procs, r \in CreateRequests :
          (CreateStart(p, r.user, r.body) /\ ~IsYearMonth(r.body.period))
              => /\ out'.op = "create"
                 /\ out'.code = 400
                 /\ pc'[p] = "idle"
                 /\ payments' = payments]_vars

\* A create request has been refused for its period while a payment could
\* still be added.
C19_Witness ==
    /\ out = [op |-> "create", code |-> 400, tag |-> "bad_period", pid |-> 0]
    /\ Len(payments) = 1
    /\ payments[1].period = March

\* C20: the record a call of PaymentService.create persists has status
\* pending and null stripePaymentIntentId, stripeChargeId and paidAt, and
\* every other field as the caller supplied it.
C20_CreatedPendingAndNull ==
    [][\A paymentData \in PaymentDataInputs :
          ServiceCreate(paymentData)
              => LET rec == payments'[Len(payments')]
                 IN  /\ Len(payments') = Len(payments) + 1
                     /\ rec.status = "pending"
                     /\ rec.stripePaymentIntentId = NoIntent
                     /\ rec.stripeChargeId = NoCharge
                     /\ rec.paidAt = NoTime
                     /\ \A f \in DOMAIN paymentData \
                                   {"status", "stripePaymentIntentId",
                                    "stripeChargeId", "paidAt"} :
                           rec[f] = paymentData[f]]_vars

\* A record has been persisted for a caller that supplied status 'paid', an
\* intent ID, a charge ID and a paidAt.
C20_Witness ==
    /\ Len(payments) > 0
    /\ DOMAIN rq[1].body = DOMAIN payments[Len(payments)]
    /\ rq[1].body.status = "paid"
    /\ rq[1].body.paidAt = 0
    /\ payments[Len(payments)].status = "pending"

\* C22: a cancel request for a stored payment by a user who is not the
\* payment's landlord is answered 403 and leaves the store as it was.
C22_CancelByOthersRejected ==
    [][\A p \in Procs, user \in Users, pid \in Stored :
          (CancelStart(p, user, pid) /\ payments[pid].landlordId # user)
              => /\ out' = [op |-> "cancel", code |-> 403,
                            tag |-> "unauthorized", pid |-> pid]
                 /\ pc'[p] = "idle"
                 /\ payments' = payments]_vars

\* The tenant of a pending payment has been refused its cancel.
C22_Witness ==
    /\ out.op = "cancel"
    /\ out.code = 403
    /\ out.pid \in Stored
    /\ payments[out.pid].tenantId = "tenant1"
    /\ payments[out.pid].landlordId = "landlord1"
    /\ payments[out.pid].status = "pending"

\* C23: no step removes a stored payment, and no step changes a field of a
\* stored payment other than status, paidAt, stripeChargeId and
\* stripePaymentIntentId, or adds or removes a field.
C23_OnlyLifecycleFieldsChange ==
    [][\A i \in Stored :
          /\ i \in 1..Len(payments')
          /\ DOMAIN payments'[i] = DOMAIN payments[i]
          /\ \A f \in DOMAIN payments[i] \
                        {"status", "paidAt", "stripeChargeId",
                         "stripePaymentIntentId"} :
                payments'[i][f] = payments[i][f]]_vars

\* A payment that was given an intent has been cancelled and still has the
\* fields it was created with.
C23_Witness ==
    /\ out.op = "cancel"
    /\ out.tag = "cancelled"
    /\ out.pid \in Stored
    /\ payments[out.pid].status = "cancelled"
    /\ payments[out.pid].stripePaymentIntentId # NoIntent
    /\ payments[out.pid].totalAmount = 1500
    /\ payments[out.pid].currency = "USD"

\* C24: the paidAt of every stored payment is non-null exactly when its
\* status is paid.
C24_PaidAtIffPaid ==
    \A i \in Stored :
        (payments[i].paidAt # NoTime) <=> (payments[i].status = "paid")

\* C25: the write of a cancel request that finds the payment paid (a
\* succeeded webhook or sync has written between the cancel's read and its
\* write) leaves it paid.
C25_CancelDoesNotOverwritePaid ==
    [][\A p \in Procs :
          (CancelWrite(p) /\ payments[rq[p].pid].status = "paid")
              => payments'[rq[p].pid].status = "paid"]_vars

\* C26: every intent that is not canceled and whose client secret an
\* initiate-charge has handed out is the intent its payment record stores.
C26_OneLiveIntent ==
    \A i \in 1..Len(intents) :
        (intents[i].secretSent /\ intents[i].status # "canceled")
            => payments[intents[i].paymentId].stripePaymentIntentId = i

\* C27: of two stored pending or paid payments of one tenant and property,
\* at most one has depositAmount > 0.
C27_OneDeposit ==
    \A i \in Stored, j \in Stored :
        ( /\ i # j
          /\ payments[i].tenantId = payments[j].tenantId
          /\ payments[i].propertyId = payments[j].propertyId
          /\ payments[i].status \in {"pending", "paid"}
          /\ payments[j].status \in {"pending", "paid"} )
            => ~(payments[i].depositAmount > 0 /\ payments[j].depositAmount > 0)

\* C28: the landlordId of every stored payment is the owner of the
\* payment's property.
C28_LandlordOwnsProperty ==
    \A i \in Stored :
        payments[i].landlordId = Properties[payments[i].propertyId].landlordId

\* C29: a verified succeeded or payment_failed webhook whose payment ID is
\* not in the store creates no record and changes none.
C29_UnknownPaymentNoWrite ==
    [][\A type \in {"payment_intent.succeeded", "payment_intent.payment_failed"},
          pid \in PaymentIds, chg \in {NoCharge} \cup IntentIds :
          (~Exists(pid) /\ Webhook(TRUE, type, pid, chg))
              => payments' = payments]_vars

C29_Witness ==
    /\ out.op = "webhook"
    /\ out.code = 500
    /\ ~Exists(out.pid)
    /\ Len(payments) = 1
    /\ payments[1].status = "pending"

\* C21: when the notification of a request is not delivered, the request is
\* still answered with its success answer (apply 201, approve and reject
\* 200) and what it has written stays.
C21_NotificationFailureNotReported ==
    [][\A p \in Procs :
          (\/ ApplyNotify(p, FALSE)
           \/ ApproveNotify(p, FALSE)
           \/ RejectNotify(p, FALSE))
              => /\ out'.code \in {200, 201}
                 /\ applications' = applications
                 /\ leases' = leases]_vars

\* The leases of a tenant and property are no more than the applications of
\* that tenant for that property.
LeasesWithinApplications ==
    \A a \in 1..Len(applications) :
        Cardinality({l \in 1..Len(leases) :
                        /\ leases[l].tenantId = applications[a].tenantId
                        /\ leases[l].propertyId = applications[a].propertyId})
          <= Cardinality({b \in 1..Len(applications) :
                        /\ applications[b].tenantId = applications[a].tenantId
                        /\ applications[b].propertyId = applications[a].propertyId})

\* C30: no step changes the status of an application that is approved or
\* rejected, and no step leaves more leases than applications for a tenant
\* and property.
C30_DecidedOnce ==
    [][/\ \A a \in 1..Len(applications) :
             applications[a].status # "pending"
                 => applications'[a].status = applications[a].status
       /\ LeasesWithinApplications']_vars
====
